---- MODULE Spec2Model ----
(***************************************************************************)
(* A model of wmpy/_collection.py: the ManyToMany relation, its two        *)
(* _ManyToManySide indexes and the four _ManyToManyCollection variants     *)
(* (_MMList, _MMCheckedList, _MMSet, _MMCounter).                          *)
(*                                                                         *)
(* Every method is an operator from a run record to a run record.  A run   *)
(* record st holds                                                         *)
(*   c       the two sides' _contents: key -> [items, listeners]           *)
(*   log     the notification passes (_notify) made so far by the running *)
(*           call: whose listeners were called, which ones, and the        *)
(*           contents they could observe at that moment                    *)
(*   touched the collections whose _items the running call has written     *)
(*   err     "none", or the exception that ended the call                  *)
(*   pi      the iteration order of hash containers during the call        *)
(* An operator applied to a run record whose err is not "none" returns it  *)
(* unchanged: that is how a raised exception skips the rest of a method.   *)
(***************************************************************************)
EXTENDS Integers, Sequences, FiniteSets, TLC

VARIABLES kind, cap, badkeys, contents, log, last, wl, events, wlast

vars == <<kind, cap, badkeys, contents, log, last, wl, events, wlast>>

\* The variables of the relation, and those of the WatchableList.
mmvars == <<kind, cap, badkeys, contents, log, last>>
wlvars == <<wl, events, wlast>>

\* Keys of the left side and of the right side.
MaxLeftKeys == 1
MaxRightKeys == 2
\* Largest container: the length of a list, the number of elements a Counter
\* holds or owes.
MaxLen == 2
\* Longest argument list of a call.
MaxArg == 2
\* Listeners registered at one time, over all collections.
MaxListeners == 2

Sides == {"left", "right"}
Kinds == {"list", "checked_list", "set", "counter"}
LeftKeys == 1 .. MaxLeftKeys
RightKeys == 11 .. (10 + MaxRightKeys)

Other(s) == IF s = "left" THEN "right" ELSE "left"
KeysOf(s) == IF s = "left" THEN LeftKeys ELSE RightKeys
\* The items a collection of side s can hold are keys of the other side.
ItemsOf(s) == KeysOf(Other(s))

IsList(k) == k \in {"list", "checked_list"}

\* A slice object passed where an item is expected.  A list stores it as it
\* stores any object; it cannot be a key of a side.
ASlice == 99
\* The items a caller may pass to a collection of side s: with badkeys, a
\* slice object too.
ArgItems(s) == ItemsOf(s) \cup (IF badkeys THEN {ASlice} ELSE {})

(***************************************************************************)
(* Plain containers: list, set and collections.Counter.                    *)
(***************************************************************************)
inner(k) == IF k = "set" THEN {} ELSE <<>>

Range(f) == {f[i] : i \in DOMAIN f}

Occurrences(seq, x) == Cardinality({i \in DOMAIN seq : seq[i] = x})

\* Counter[x]: a missing key counts zero.
Count(cnt, x) == IF x \in DOMAIN cnt THEN cnt[x] ELSE 0

\* Counter.update((x,)) / Counter.subtract((x,)): the key is stored even
\* when the count reaches zero or goes below it.
CounterAdd(cnt, x, d) ==
    [y \in DOMAIN cnt \cup {x} |-> IF y = x THEN Count(cnt, x) + d ELSE cnt[y]]

\* Only the keys with a positive count: what Counter's binary operators keep.
Positive(cnt) == [y \in {z \in DOMAIN cnt : cnt[z] > 0} |-> cnt[y]]

\* collections.Counter(iterable)
CounterOf(seq) == [y \in Range(seq) |-> Occurrences(seq, y)]

\* Counter.__sub__: positive part of the pointwise difference.
CounterSub(a, b) ==
    Positive([y \in DOMAIN a \cup DOMAIN b |-> Count(a, y) - Count(b, y)])

RECURSIVE Repeat(_, _)
Repeat(x, n) == IF n <= 0 THEN <<>> ELSE <<x>> \o Repeat(x, n - 1)

\* The members of S in the order pi lists them.
InOrder(pi, S) == SelectSeq(pi, LAMBDA x : x \in S)

RECURSIVE Flatten(_)
Flatten(seqs) == IF seqs = <<>> THEN <<>> ELSE Head(seqs) \o Flatten(Tail(seqs))

\* Counter.elements(): each key with a positive count, repeated count times.
CounterElements(pi, cnt) ==
    LET keys == InOrder(pi, {y \in DOMAIN cnt : cnt[y] > 0})
    IN  Flatten([i \in DOMAIN keys |-> Repeat(keys[i], cnt[keys[i]])])

\* list(items) for a raw container: a Counter is a dict and yields its keys.
RawList(k, pi, items) ==
    IF IsList(k) THEN items
    ELSE IF k = "set" THEN InOrder(pi, items)
    ELSE InOrder(pi, DOMAIN items)

\* list.remove(x): drops the first occurrence.
RemoveFirst(seq, x) ==
    LET i == CHOOSE j \in DOMAIN seq : seq[j] = x /\ \A h \in 1 .. (j - 1) : seq[h] # x
    IN  SubSeq(seq, 1, i - 1) \o SubSeq(seq, i + 1, Len(seq))

(***************************************************************************)
(* Run records.                                                            *)
(***************************************************************************)
Ok(st) == st.err = "none"
Raise(st, e) == [st EXCEPT !.err = e]
Items(st, s, k) == st.c[s][k].items
SetItems(st, s, k, v) ==
    [st EXCEPT !.c[s][k].items = v, !.touched = @ \cup {<<s, k>>}]

\* What a listener can read of the relation: every side's key -> items.
Snapshot(c) == [s \in Sides |-> [k \in DOMAIN c[s] |-> c[s][k].items]]

\* `x in coll`: no __contains__ is defined, so membership iterates __iter__,
\* which for a Counter is elements() and skips counts <= 0.
Contains(k, items, x) ==
    IF IsList(k) THEN x \in Range(items)
    ELSE IF k = "set" THEN x \in items
    ELSE Count(items, x) > 0

(***************************************************************************)
(* _ManyToManySide.__getitem__: get or create.                             *)
(***************************************************************************)
Side_getitem(st, s, idx) ==
    IF ~Ok(st) THEN st
    ELSE IF idx = ASlice THEN Raise(st, "TypeError")
    ELSE IF idx \in DOMAIN st.c[s] THEN st
    ELSE [st EXCEPT !.c[s] =
              @ @@ (idx :> [items |-> inner(kind[s]), listeners |-> <<>>])]

(***************************************************************************)
(* _MMCheckedList: _check, and the wrapper _setup puts around the          *)
(* functions of _MMList.__dict__ (_append, _extend, __getitem__,           *)
(* __setitem__, __delitem__) and around no other method.                   *)
(***************************************************************************)
HasDupes(items) == \E x \in Range(items) : Occurrences(items, x) > 1

_check(st, s, k) ==
    IF ~Ok(st) THEN st
    ELSE IF HasDupes(Items(st, s, k)) THEN Raise(st, "ValueError: duplicates")
    ELSE st

check_and_do(st, s, k) == IF kind[s] = "checked_list" THEN _check(st, s, k) ELSE st

(***************************************************************************)
(* The storage primitives _append, _extend, _remove of each variant.       *)
(***************************************************************************)
MMList_append(st, s, k, item) ==
    check_and_do(SetItems(st, s, k, Append(Items(st, s, k), item)), s, k)

MMSet_append(st, s, k, item) == SetItems(st, s, k, Items(st, s, k) \cup {item})

MMCounter_append(st, s, k, item) ==
    SetItems(st, s, k, CounterAdd(Items(st, s, k), item, 1))

_append(st, s, k, item) ==
    IF ~Ok(st) THEN st
    ELSE IF IsList(kind[s]) THEN MMList_append(st, s, k, item)
    ELSE IF kind[s] = "set" THEN MMSet_append(st, s, k, item)
    ELSE MMCounter_append(st, s, k, item)

MMList_extend(st, s, k, items) ==
    check_and_do(SetItems(st, s, k, Items(st, s, k) \o items), s, k)

MMSet_extend(st, s, k, items) ==
    SetItems(st, s, k, Items(st, s, k) \cup Range(items))

RECURSIVE CounterUpdate(_, _)
CounterUpdate(cnt, items) ==
    IF items = <<>> THEN cnt
    ELSE CounterUpdate(CounterAdd(cnt, Head(items), 1), Tail(items))

MMCounter_extend(st, s, k, items) ==
    SetItems(st, s, k, CounterUpdate(Items(st, s, k), items))

_extend(st, s, k, items) ==
    IF ~Ok(st) THEN st
    ELSE IF IsList(kind[s]) THEN MMList_extend(st, s, k, items)
    ELSE IF kind[s] = "set" THEN MMSet_extend(st, s, k, items)
    ELSE MMCounter_extend(st, s, k, items)

\* _ManyToManyCollection._remove: list.remove / set.remove.  _MMCheckedList
\* inherits it unwrapped.
Base_remove(st, s, k, item) ==
    IF IsList(kind[s])
    THEN IF item \in Range(Items(st, s, k))
         THEN SetItems(st, s, k, RemoveFirst(Items(st, s, k), item))
         ELSE Raise(st, "ValueError: not in list")
    ELSE IF item \in Items(st, s, k)
         THEN SetItems(st, s, k, Items(st, s, k) \ {item})
         ELSE Raise(st, "KeyError")

\* _MMCounter._remove: Counter.subtract never fails.
MMCounter_remove(st, s, k, item) ==
    SetItems(st, s, k, CounterAdd(Items(st, s, k), item, -1))

_remove(st, s, k, item) ==
    IF ~Ok(st) THEN st
    ELSE IF kind[s] = "counter" THEN MMCounter_remove(st, s, k, item)
    ELSE Base_remove(st, s, k, item)

(***************************************************************************)
(* Notification.                                                           *)
(***************************************************************************)
\* A listener is a number, negated once the owner of its callback is dead.
Alive(func) == func > 0

\* _remove_weak_listener: wself.listeners.remove(weak_cb), an absent one is
\* ignored.
_remove_weak_listener(listeners, func) ==
    IF func \in Range(listeners) THEN RemoveFirst(listeners, func) ELSE listeners

\* for func in self.listeners: func(self).  The iterator holds a position in
\* the list it walks, and looks the list up again at every step.  A listener
\* whose owner is alive is called; one whose owner is dead does nothing but
\* deregister itself.
RECURSIVE Pass(_, _, _)
Pass(listeners, i, called) ==
    IF i > Len(listeners) THEN [listeners |-> listeners, called |-> called]
    ELSE LET func == listeners[i]
         IN  IF Alive(func) THEN Pass(listeners, i + 1, Append(called, func))
             ELSE Pass(_remove_weak_listener(listeners, func), i + 1, called)

\* One pass over a collection's listeners: each is called with the
\* collection, while the relation reads as Snapshot(st.c).
Invoke(st, s, k, listeners) ==
    [st EXCEPT !.log = Append(@,
        [side |-> s, key |-> k, registered |-> listeners,
         called |-> Pass(listeners, 1, <<>>).called, seen |-> Snapshot(st.c)])]

_notify(st, s, k) ==
    IF ~Ok(st) THEN st
    ELSE [Invoke(st, s, k, st.c[s][k].listeners)
             EXCEPT !.c[s][k].listeners = Pass(@, 1, <<>>).listeners]

\* self._other_side[item]._notify()
NotifyOther(st, s, item) ==
    _notify(Side_getitem(st, Other(s), item), Other(s), item)

(***************************************************************************)
(* Linking and unlinking the reciprocal entries.                           *)
(***************************************************************************)
_link(st, s, k, item, notify) ==
    LET s1 == _append(Side_getitem(st, Other(s), item), Other(s), item, k)
    IN  IF notify THEN NotifyOther(s1, s, item) ELSE s1

_unlink(st, s, k, item, notify) ==
    LET s1 == _remove(Side_getitem(st, Other(s), item), Other(s), item, k)
    IN  IF notify THEN NotifyOther(s1, s, item) ELSE s1

RECURSIVE LinkEach(_, _, _, _)
LinkEach(st, s, k, items) ==
    IF items = <<>> \/ ~Ok(st) THEN st
    ELSE LinkEach(_link(st, s, k, Head(items), FALSE), s, k, Tail(items))

RECURSIVE UnlinkEach(_, _, _, _)
UnlinkEach(st, s, k, items) ==
    IF items = <<>> \/ ~Ok(st) THEN st
    ELSE UnlinkEach(_unlink(st, s, k, Head(items), FALSE), s, k, Tail(items))

RECURSIVE NotifyEach(_, _, _)
NotifyEach(st, s, items) ==
    IF items = <<>> \/ ~Ok(st) THEN st
    ELSE NotifyEach(NotifyOther(st, s, Head(items)), s, Tail(items))

\* Two passes: every reciprocal entry first, the notifications after.
_link_all(st, s, k, items) == NotifyEach(LinkEach(st, s, k, items), s, items)

_unlink_all(st, s, k, items) == NotifyEach(UnlinkEach(st, s, k, items), s, items)

(***************************************************************************)
(* The public mutators of a collection.                                    *)
(***************************************************************************)
clear(st, s, k, notify) ==
    LET s1 == _unlink_all(st, s, k, RawList(kind[s], st.pi, Items(st, s, k)))
        s2 == IF Ok(s1) THEN SetItems(s1, s, k, inner(kind[s])) ELSE s1
    IN  IF notify THEN _notify(s2, s, k) ELSE s2

\* A variant of append that notifies the mutated side before it links.
Base_append_own_first(st, s, k, item) ==
    _link(_notify(_append(st, s, k, item), s, k), s, k, item, TRUE)

Base_append(st, s, k, item) ==
    _notify(_link(_append(st, s, k, item), s, k, item, TRUE), s, k)

\* A variant of _MMSet.append without the membership test.
MMSet_append_unguarded(st, s, k, item) == Base_append(st, s, k, item)

\* _MMSet.append: an item already present is ignored.
MMSet_append_public(st, s, k, item) ==
    IF Contains("set", Items(st, s, k), item) THEN st
    ELSE Base_append(st, s, k, item)

append(st, s, k, item) ==
    IF kind[s] = "set" THEN MMSet_append_public(st, s, k, item)
    ELSE Base_append(st, s, k, item)

Base_extend(st, s, k, items) ==
    _notify(_link_all(_extend(st, s, k, items), s, k, items), s, k)

\* A variant of _MMSet.extend that passes the items on as they come.
MMSet_extend_unfiltered(st, s, k, items) == Base_extend(st, s, k, items)

\* _MMSet.extend: items = set(items) - self._items, then the base extend.
MMSet_extend_public(st, s, k, items) ==
    Base_extend(st, s, k, InOrder(st.pi, Range(items) \ Items(st, s, k)))

extend(st, s, k, items) ==
    IF kind[s] = "set" THEN MMSet_extend_public(st, s, k, items)
    ELSE Base_extend(st, s, k, items)

remove(st, s, k, item) ==
    _notify(_unlink(_remove(st, s, k, item), s, k, item, TRUE), s, k)

\* _ManyToManyCollection._replace (the list variants): clear, then extend.
Base_replace(st, s, k, newitems) == extend(clear(st, s, k, FALSE), s, k, newitems)

\* A variant of _MMSet._replace that clears and extends, as the list variants do.
MMSet_replace_clear_extend(st, s, k, newitems) ==
    Base_extend(clear(st, s, k, FALSE), s, k, InOrder(st.pi, newitems))

MMSet_replace(st, s, k, newitems) ==
    LET old == Items(st, s, k)
        s1 == _unlink_all(st, s, k, InOrder(st.pi, old \ newitems))
        s2 == _link_all(s1, s, k, InOrder(st.pi, newitems \ old))
        s3 == IF Ok(s2) THEN SetItems(s2, s, k, newitems) ELSE s2
    IN  _notify(s3, s, k)

MMCounter_replace(st, s, k, newitems) ==
    LET old == Items(st, s, k)
        s1 == _unlink_all(st, s, k, CounterElements(st.pi, CounterSub(old, newitems)))
        s2 == _link_all(s1, s, k, CounterElements(st.pi, CounterSub(newitems, old)))
        s3 == IF Ok(s2) THEN SetItems(s2, s, k, newitems) ELSE s2
    IN  _notify(s3, s, k)

_replace(st, s, k, newitems) ==
    IF ~Ok(st) THEN st
    ELSE IF kind[s] = "set" THEN MMSet_replace(st, s, k, newitems)
    ELSE IF kind[s] = "counter" THEN MMCounter_replace(st, s, k, newitems)
    ELSE Base_replace(st, s, k, newitems)

(***************************************************************************)
(* _MMList.__setitem__ / __delitem__.  idx is [slice, start, stop]: with   *)
(* slice it is the Python slice start:stop (0 <= start <= stop, step 1),   *)
(* without it the Python index start (>= 0).                               *)
(***************************************************************************)
IsSlice(idx) == idx.slice

Min(a, b) == IF a < b THEN a ELSE b

\* list[start:stop]
Slice(items, idx) ==
    SubSeq(items, Min(idx.start, Len(items)) + 1, Min(idx.stop, Len(items)))

\* list[start:stop] = value
SliceAssign(items, idx, value) ==
    SubSeq(items, 1, Min(idx.start, Len(items))) \o value
        \o SubSeq(items, Min(idx.stop, Len(items)) + 1, Len(items))

\* list[i] = value
IndexAssign(items, i, value) == [items EXCEPT ![i + 1] = value]

\* del list[i]
IndexDelete(items, i) == SubSeq(items, 1, i) \o SubSeq(items, i + 2, Len(items))

MMList_setitem(st, s, k, idx, new_item) ==
    IF IsSlice(idx)
    THEN LET s1 == _unlink_all(st, s, k, Slice(Items(st, s, k), idx))
             s2 == IF Ok(s1)
                   THEN SetItems(s1, s, k, SliceAssign(Items(s1, s, k), idx, new_item))
                   ELSE s1
         IN  _notify(_link_all(s2, s, k, new_item), s, k)
    ELSE IF idx.start >= Len(Items(st, s, k)) THEN Raise(st, "IndexError")
    ELSE LET s1 == _unlink(st, s, k, Items(st, s, k)[idx.start + 1], TRUE)
             s2 == IF Ok(s1)
                   THEN SetItems(s1, s, k,
                                 IndexAssign(Items(s1, s, k), idx.start, new_item))
                   ELSE s1
         IN  _notify(_link(s2, s, k, new_item, TRUE), s, k)

MMList_delitem(st, s, k, idx) ==
    IF IsSlice(idx)
    THEN LET s1 == _unlink_all(st, s, k, Slice(Items(st, s, k), idx))
             s2 == IF Ok(s1)
                   THEN SetItems(s1, s, k, SliceAssign(Items(s1, s, k), idx, <<>>))
                   ELSE s1
         IN  _notify(s2, s, k)
    ELSE IF idx.start >= Len(Items(st, s, k)) THEN Raise(st, "IndexError")
    ELSE LET s1 == _unlink(st, s, k, Items(st, s, k)[idx.start + 1], TRUE)
             s2 == IF Ok(s1)
                   THEN SetItems(s1, s, k, IndexDelete(Items(s1, s, k), idx.start))
                   ELSE s1
         IN  _notify(s2, s, k)

\* coll[idx] = new_item and del coll[idx] of the list variants.
\* _MMCheckedList's are wrapped, so the scan runs after the whole method, its
\* notifications included.
setitem(st, s, k, idx, new_item) ==
    check_and_do(MMList_setitem(st, s, k, idx, new_item), s, k)

delitem(st, s, k, idx) == check_and_do(MMList_delitem(st, s, k, idx), s, k)

(***************************************************************************)
(* The in-place operators +=, &=, |=, ^= : do_iop computes                 *)
(* op(self._items, other) and hands the result to _replace.                *)
(***************************************************************************)
OpNames == {"__add__", "__and__", "__or__", "__xor__"}

\* kind.inner(iterable): list(...), set(...), Counter(...)
Convert(k, seq) ==
    IF IsList(k) THEN seq ELSE IF k = "set" THEN Range(seq) ELSE CounterOf(seq)

Max(a, b) == IF a < b THEN b ELSE a

CounterOp(name, a, b) ==
    Positive([y \in DOMAIN a \cup DOMAIN b |->
        IF name = "__add__" THEN Count(a, y) + Count(b, y)
        ELSE IF name = "__and__" THEN Min(Count(a, y), Count(b, y))
        ELSE Max(Count(a, y), Count(b, y))])

\* Whether the raw container type has the operator (list: +; set: &, |, ^;
\* Counter: +, &, |).  Without it the statement is a TypeError raised by the
\* raw containers before anything is changed.
Supports(k, name) ==
    IF IsList(k) THEN name = "__add__"
    ELSE IF k = "set" THEN name # "__add__"
    ELSE name # "__xor__"

do_op(k, name, items, other) ==
    IF IsList(k) THEN items \o other
    ELSE IF k = "set"
    THEN IF name = "__and__" THEN items \cap other
         ELSE IF name = "__or__" THEN items \cup other
         ELSE (items \ other) \cup (other \ items)
    ELSE CounterOp(name, items, other)

do_iop(st, s, k, name, other) ==
    _replace(st, s, k, do_op(kind[s], name, Items(st, s, k), other))

(***************************************************************************)
(* _ManyToManySide.__setitem__ / __delitem__.                              *)
(***************************************************************************)
\* side[idx] = items; `same` says that items is side[idx] itself.
Side_setitem(st, s, idx, items, same) ==
    IF same THEN Side_getitem(st, s, idx)
    ELSE _replace(Side_getitem(st, s, idx), s, idx, Convert(kind[s], items))

\* del side[idx]: the collection is popped first, so clear() runs on an
\* object the side no longer holds: its reciprocal entries are unlinked,
\* its own _items are emptied out of sight, and its listeners are called.
Side_delitem(st, s, idx) ==
    IF idx \notin DOMAIN st.c[s] THEN Raise(st, "KeyError")
    ELSE LET self == st.c[s][idx]
             s1 == [st EXCEPT !.c[s] = [k \in DOMAIN @ \ {idx} |-> @[k]]]
             s2 == _unlink_all(s1, s, idx, RawList(kind[s], st.pi, self.items))
         IN  IF Ok(s2) THEN Invoke(s2, s, idx, self.listeners) ELSE s2

(***************************************************************************)
(* _ManyToManyCollection.add_weak_listener: the callback is appended to    *)
(* the collection's listeners.  A listener is named by the least number no  *)
(* listener of the collection has.                                         *)
(***************************************************************************)
Fresh(listeners) ==
    CHOOSE n \in 1 .. (Len(listeners) + 1) :
        /\ \A i \in DOMAIN listeners : listeners[i] # n /\ listeners[i] # 0 - n
        /\ \A m \in 1 .. (n - 1) : \E i \in DOMAIN listeners : listeners[i] \in {m, 0 - m}

add_weak_listener(st, s, k) ==
    [st EXCEPT !.c[s][k].listeners = Append(@, Fresh(@))]

(***************************************************************************)
(* WatchableList.  A method is an operator on a run record w holding       *)
(*   c    _contents                                                        *)
(*   ev   the events published so far by the running call, each with its   *)
(*        kind and the contents at the moment it was published             *)
(*   err  "none", or the exception that ended the call                     *)
(*   pf   whether the watchable mixin publishes the event of a scope whose *)
(*        body raised (the mixin is outside this file and its contract     *)
(*        leaves that open)                                                *)
(* An index is [slice, start, stop, step]; without slice it is the integer *)
(* start.  WNone is the bound left out of a slice, as in s[:2].            *)
(***************************************************************************)
MaxWLen == 4
WNone == 1000

\* slice.indices(n) for a positive step: each bound counted from the end
\* when negative, then clipped to 0 .. n.
Clip(i, n) == IF i < 0 THEN Max(i + n, 0) ELSE Min(i, n)

SliceIndices(idx, n) ==
    [start |-> IF idx.start = WNone THEN 0 ELSE Clip(idx.start, n),
     stop  |-> IF idx.stop = WNone THEN n ELSE Clip(idx.stop, n),
     step  |-> idx.step]

\* len(range(start, stop, step))
RangeLen(b) ==
    IF b.stop <= b.start THEN 0 ELSE ((b.stop - b.start) + (b.step - 1)) \div b.step

WSlice(start, stop) == [slice |-> TRUE, start |-> start, stop |-> stop, step |-> 1]

\* list[idx] = value of the built-in list, for a slice.  With step 1 the
\* slice start:stop is replaced, an empty one (stop <= start) standing at
\* start; with another step the selected places are overwritten, and the
\* lengths have to agree.
ListSetSlice(c, idx, value) ==
    LET b == SliceIndices(idx, Len(c))
    IN  IF b.step = 1
        THEN SubSeq(c, 1, b.start) \o value \o SubSeq(c, Max(b.start, b.stop) + 1, Len(c))
        ELSE [i \in 1 .. Len(c) |->
                 IF /\ i - 1 >= b.start /\ i - 1 < b.stop
                    /\ (i - 1 - b.start) % b.step = 0
                 THEN value[((i - 1 - b.start) \div b.step) + 1]
                 ELSE c[i]]

\* del list[idx] of the built-in list, for a slice.
ListDelSlice(c, idx) ==
    LET b == SliceIndices(idx, Len(c))
        keep == {i \in 1 .. Len(c) :
                    ~(/\ i - 1 >= b.start /\ i - 1 < b.stop
                      /\ (i - 1 - b.start) % b.step = 0)}
        pos[i \in 0 .. Len(c)] ==
            IF i = 0 THEN <<>>
            ELSE IF i \in keep THEN Append(pos[i - 1], c[i]) ELSE pos[i - 1]
    IN  pos[Len(c)]

\* An integer index of the built-in list: counted from the end when
\* negative; -1 stands for "out of range".
ListIndex(c, i) ==
    LET j == IF i < 0 THEN i + Len(c) ELSE i
    IN  IF j >= 0 /\ j < Len(c) THEN j ELSE -1

\* with self._event(kind, ...): body.  The event is published when the
\* scope closes; failed says that the body raised.
WEmit(w, evkind, failed) ==
    IF failed /\ ~w.pf THEN w
    ELSE [w EXCEPT !.ev = Append(@, [kind |-> evkind, contents |-> w.c])]

\* A variant of __delitem__ that deletes a slice without an event.
WatchableList_delitem_quiet(w, idx) ==
    IF w.err # "none" THEN w
    ELSE IF idx.slice THEN [w EXCEPT !.c = ListDelSlice(w.c, idx)]
    ELSE LET j == ListIndex(w.c, idx.start)
         IN  IF j = -1 THEN [WEmit(w, "del", TRUE) EXCEPT !.err = "IndexError"]
             ELSE WEmit([w EXCEPT !.c = IndexDelete(w.c, j)], "del", FALSE)

WatchableList_delitem(w, idx) ==
    IF w.err # "none" THEN w
    ELSE IF idx.slice
    THEN WEmit([w EXCEPT !.c = ListDelSlice(w.c, idx)], "del", FALSE)
    ELSE LET j == ListIndex(w.c, idx.start)
         IN  IF j = -1 THEN [WEmit(w, "del", TRUE) EXCEPT !.err = "IndexError"]
             ELSE WEmit([w EXCEPT !.c = IndexDelete(w.c, j)], "del", FALSE)

\* A variant of the insertion point: the end of the slice.
InsertPoint_at_stop(b, n) == b.stop

\* insertPoint = start + len(indices)
InsertPoint(b, n) == b.start + n

RECURSIVE WatchableList_setitem(_, _, _)
WatchableList_setitem(w, idx, value) ==
    IF w.err # "none" THEN w
    ELSE IF ~idx.slice
    THEN LET j == ListIndex(w.c, idx.start)
         IN  IF j = -1 THEN [WEmit(w, "update", TRUE) EXCEPT !.err = "IndexError"]
             ELSE WEmit([w EXCEPT !.c = IndexAssign(w.c, j, value)], "update", FALSE)
    ELSE LET b == SliceIndices(idx, Len(w.c))
             n == RangeLen(b)
         IN  IF n = Len(value)
             THEN WEmit([w EXCEPT !.c = ListSetSlice(w.c, idx, value)], "update", FALSE)
             ELSE IF b.step # 1 THEN [w EXCEPT !.err = "ValueError"]
             ELSE IF n > Len(value)
             THEN WatchableList_delitem(
                      WatchableList_setitem(w, WSlice(b.start, b.start + Len(value)), value),
                      WSlice(b.start + Len(value), b.stop))
             ELSE LET ip == InsertPoint(b, n)
                      w1 == WatchableList_setitem(w, WSlice(b.start, ip), SubSeq(value, 1, n))
                      new_values == SubSeq(value, n + 1, Len(value))
                  IN  IF w1.err # "none" THEN w1
                      ELSE WEmit([w1 EXCEPT !.c = ListSetSlice(w1.c, WSlice(ip, ip), new_values)],
                                 "insert", FALSE)

WatchableList_append(w, value) ==
    WEmit([w EXCEPT !.c = Append(w.c, value)], "insert", FALSE)

WatchableList_extend(w, value) ==
    WEmit([w EXCEPT !.c = w.c \o value], "insert", FALSE)

\* The first place holding value is deleted through __delitem__.
WatchableList_remove(w, value) ==
    IF \E i \in DOMAIN w.c : w.c[i] = value
    THEN LET i == CHOOSE j \in DOMAIN w.c :
                      w.c[j] = value /\ \A h \in 1 .. (j - 1) : w.c[h] # value
         IN  WatchableList_delitem(w, [slice |-> FALSE, start |-> i - 1, stop |-> i, step |-> 1])
    ELSE [w EXCEPT !.err = "ValueError"]

(***************************************************************************)
(* The state machine.  One action per call of the public interface; a     *)
(* call runs to its return or to the exception that ends it.  last holds   *)
(* the call that has just ended and log the notification passes it made;   *)
(* Return is the caller going on, after which the next call can be made.   *)
(***************************************************************************)
Perms(S) == {p \in [1 .. Cardinality(S) -> S] : Range(p) = S}

Ascending(S) == CHOOSE p \in Perms(S) : \A i, j \in DOMAIN p : i < j => p[i] < p[j]

\* The orders in which a hash container of side s may iterate its members.
Orders(s) ==
    IF kind[s] \in {"set", "counter"} THEN Perms(ItemsOf(s)) ELSE {Ascending(ItemsOf(s))}

\* The argument lists a call may be given.
SeqsUpTo(S, n) == UNION {[1 .. m -> S] : m \in 0 .. n}

Args(s) == SeqsUpTo(ArgItems(s), MaxArg)

Indexes == {[slice |-> FALSE, start |-> i, stop |-> i + 1] : i \in 0 .. (MaxLen - 1)}

Slices ==
    {x \in [slice : {TRUE}, start : 0 .. MaxLen, stop : 0 .. MaxLen] : x.start <= x.stop}

Abs(n) == IF n < 0 THEN 0 - n ELSE n

RECURSIVE SumAbs(_, _)
SumAbs(cnt, keys) ==
    IF keys = {} THEN 0
    ELSE LET y == CHOOSE z \in keys : TRUE
         IN  Abs(cnt[y]) + SumAbs(cnt, keys \ {y})

Size(k, items) ==
    IF IsList(k) THEN Len(items)
    ELSE IF k = "set" THEN Cardinality(items)
    ELSE SumAbs(items, DOMAIN items)

Bounded(c) ==
    \A s \in Sides : \A k \in DOMAIN c[s] : Size(kind[s], c[s][k].items) <= cap

NumListeners(c) ==
    LET n[ks \in SUBSET (Sides \X (LeftKeys \cup RightKeys))] ==
            IF ks = {} THEN 0
            ELSE LET x == CHOOSE y \in ks : TRUE
                 IN  (IF x[2] \in DOMAIN c[x[1]] THEN Len(c[x[1]][x[2]].listeners) ELSE 0)
                         + n[ks \ {x}]
    IN  n[Sides \X (LeftKeys \cup RightKeys)]

Start(pi) == [c |-> contents, log |-> <<>>, touched |-> {}, err |-> "none", pi |-> pi]

NoCall ==
    [op |-> "none", side |-> "left", key |-> 0, arg |-> <<>>, err |-> "none",
     touched |-> {}, pre |-> [s \in Sides |-> <<>>]]

Idle == last.op = "none"

NoWCall ==
    [op |-> "none", idx |-> [slice |-> FALSE, start |-> 0, stop |-> 0, step |-> 1],
     value |-> <<>>, err |-> "none", pre |-> <<>>]

\* No WatchableList has been made.
NoWatchableList == wl = <<>> /\ events = <<>> /\ wlast = NoWCall

Commit(op, s, k, arg, r) ==
    LET res == r
    IN  /\ Bounded(res.c)
        /\ contents' = res.c
        /\ log' = res.log
        /\ last' = [op |-> op, side |-> s, key |-> k, arg |-> arg, err |-> res.err,
                    touched |-> res.touched, pre |-> Snapshot(contents)]
        /\ UNCHANGED <<kind, cap, badkeys, wlvars>>

Init ==
    /\ kind \in [Sides -> Kinds]
    /\ cap = MaxLen
    /\ badkeys = FALSE
    /\ contents = [s \in Sides |-> <<>>]
    /\ log = <<>>
    /\ last = NoCall
    /\ NoWatchableList

\* The call made on side[k], with the iteration order pi it runs under.
Begin(s, k, pi) == Side_getitem(Start(pi), s, k)

\* side[k].append(item)
Call_append ==
    /\ Idle
    /\ \E s \in Sides : \E k \in KeysOf(s) : \E item \in ArgItems(s) : \E pi \in Orders(s) :
           Commit("append", s, k, item, append(Begin(s, k, pi), s, k, item))

\* side[k].extend(items)
Call_extend ==
    /\ Idle
    /\ \E s \in Sides : \E k \in KeysOf(s) : \E items \in Args(s) : \E pi \in Orders(s) :
           Commit("extend", s, k, items, extend(Begin(s, k, pi), s, k, items))

\* side[k].remove(item)
Call_remove ==
    /\ Idle
    /\ \E s \in Sides : \E k \in KeysOf(s) : \E item \in ArgItems(s) : \E pi \in Orders(s) :
           Commit("remove", s, k, item, remove(Begin(s, k, pi), s, k, item))

\* side[k].clear()
Call_clear ==
    /\ Idle
    /\ \E s \in Sides : \E k \in KeysOf(s) : \E pi \in Orders(s) :
           Commit("clear", s, k, <<>>, clear(Begin(s, k, pi), s, k, TRUE))

\* side[k][i] = value.  Only a list variant has the method: on a set or a
\* counter the statement is a TypeError of the interpreter, before any code
\* of the collection runs, and is not a call of the model.
Call_setitem_index ==
    /\ Idle
    /\ \E s \in {x \in Sides : IsList(kind[x])} : \E k \in KeysOf(s) : \E idx \in Indexes :
           \E value \in ArgItems(s) : \E pi \in Orders(s) :
               Commit("setitem", s, k, [idx |-> idx, value |-> value],
                      setitem(Begin(s, k, pi), s, k, idx, value))

\* side[k][i:j] = value
Call_setitem_slice ==
    /\ Idle
    /\ \E s \in {x \in Sides : IsList(kind[x])} : \E k \in KeysOf(s) : \E idx \in Slices :
           \E value \in Args(s) : \E pi \in Orders(s) :
               Commit("setitem", s, k, [idx |-> idx, value |-> value],
                      setitem(Begin(s, k, pi), s, k, idx, value))

\* del side[k][i]  and  del side[k][i:j]
Call_delitem ==
    /\ Idle
    /\ \E s \in {x \in Sides : IsList(kind[x])} : \E k \in KeysOf(s) :
           \E idx \in Indexes \cup Slices :
           \E pi \in Orders(s) :
               Commit("delitem", s, k, [idx |-> idx], delitem(Begin(s, k, pi), s, k, idx))

\* side[k] = items, with items a fresh iterable
Call_assign ==
    /\ Idle
    /\ \E s \in Sides : \E k \in KeysOf(s) : \E items \in Args(s) : \E pi \in Orders(s) :
           Commit("assign", s, k, items, Side_setitem(Start(pi), s, k, items, FALSE))

\* side[k] = side[k]
Call_assign_same ==
    /\ Idle
    /\ \E s \in Sides : \E k \in KeysOf(s) : \E pi \in Orders(s) :
           Commit("assign_same", s, k, <<>>, Side_setitem(Start(pi), s, k, <<>>, TRUE))

\* del side[k]
Call_delete ==
    /\ Idle
    /\ \E s \in Sides : \E k \in KeysOf(s) : \E pi \in Orders(s) :
           Commit("delete", s, k, <<>>, Side_delitem(Start(pi), s, k))

\* side[k] op= other, with other a container of the side's own type and op
\* an operator that type has; the assignment back to side[k] that ends the
\* statement stores the object side[k] already holds.
Call_inplace ==
    /\ Idle
    /\ \E s \in Sides : \E k \in KeysOf(s) :
           \E name \in {n \in OpNames : Supports(kind[s], n)} :
           \E other \in Args(s) : \E pi \in Orders(s) :
               Commit("inplace", s, k, [name |-> name, other |-> other],
                      Side_setitem(
                          do_iop(Begin(s, k, pi), s, k, name, Convert(kind[s], other)),
                          s, k, other, TRUE))

\* side[k].add_weak_listener(cb)
Call_add_weak_listener ==
    /\ Idle
    /\ NumListeners(contents) < MaxListeners
    /\ \E s \in Sides : \E k \in KeysOf(s) :
           Commit("add_weak_listener", s, k, <<>>,
                  add_weak_listener(Begin(s, k, Ascending(ItemsOf(s))), s, k))

\* The caller goes on.
Return ==
    /\ ~Idle
    /\ last' = NoCall
    /\ log' = <<>>
    /\ UNCHANGED <<kind, cap, badkeys, contents, wlvars>>

Next ==
    \/ Call_append
    \/ Call_extend
    \/ Call_remove
    \/ Call_clear
    \/ Call_setitem_index
    \/ Call_setitem_slice
    \/ Call_delitem
    \/ Call_assign
    \/ Call_assign_same
    \/ Call_delete
    \/ Call_inplace
    \/ Call_add_weak_listener
    \/ Return

Spec == Init /\ [][Next]_vars

\* The relation with lists one longer, on a checked list at the left: long
\* enough for a list to hold a duplicate next to another key.
InitDeep ==
    /\ kind \in {f \in [Sides -> Kinds] : f["left"] = "checked_list"}
    /\ cap = MaxLen + 1
    /\ badkeys = FALSE
    /\ contents = [s \in Sides |-> <<>>]
    /\ log = <<>>
    /\ last = NoCall
    /\ NoWatchableList

SpecDeep == InitDeep /\ [][Next]_vars

\* The relation of two plain lists, with callers that may pass a slice
\* object as an item.
InitSlice ==
    /\ kind = [s \in Sides |-> "list"]
    /\ cap = MaxLen
    /\ badkeys = TRUE
    /\ contents = [s \in Sides |-> <<>>]
    /\ log = <<>>
    /\ last = NoCall
    /\ NoWatchableList

SpecSlice == InitSlice /\ [][Next]_vars

(***************************************************************************)
(* The relation whose listeners' owners may die.                           *)
(***************************************************************************)
\* The owner of a listener of side[k] is dropped: from now on the callback
\* finds it dead.
Owner_dies ==
    /\ Idle
    /\ \E s \in Sides : \E k \in DOMAIN contents[s] :
       \E i \in DOMAIN contents[s][k].listeners :
           /\ Alive(contents[s][k].listeners[i])
           /\ contents' = [contents EXCEPT ![s][k].listeners[i] = 0 - @]
    /\ UNCHANGED <<kind, cap, badkeys, log, last, wlvars>>

\* A dead owner is reclaimed: its registration removes itself.
Owner_reclaimed ==
    /\ Idle
    /\ \E s \in Sides : \E k \in DOMAIN contents[s] :
       \E i \in DOMAIN contents[s][k].listeners :
           /\ ~Alive(contents[s][k].listeners[i])
           /\ contents' = [contents EXCEPT ![s][k].listeners =
                              _remove_weak_listener(@, contents[s][k].listeners[i])]
    /\ UNCHANGED <<kind, cap, badkeys, log, last, wlvars>>

InitWeak ==
    /\ kind = [s \in Sides |-> "list"]
    /\ cap = MaxLen
    /\ badkeys = FALSE
    /\ contents = [s \in Sides |-> <<>>]
    /\ log = <<>>
    /\ last = NoCall
    /\ NoWatchableList

NextWeak ==
    \/ Call_append
    \/ Call_extend
    \/ Call_remove
    \/ Call_clear
    \/ Call_setitem_index
    \/ Call_setitem_slice
    \/ Call_delitem
    \/ Call_assign
    \/ Call_assign_same
    \/ Call_delete
    \/ Call_inplace
    \/ Call_add_weak_listener
    \/ Return
    \/ Owner_dies
    \/ Owner_reclaimed

SpecWeak == InitWeak /\ [][NextWeak]_vars

(***************************************************************************)
(* The WatchableList on its own: it is made with some contents (__init__   *)
(* copies any iterable), and each action is one call of a mutator.  wlast  *)
(* holds the call just made, events what it published.                     *)
(***************************************************************************)
WValues == {1, 2}
WArgs == {<<>>, <<10>>, <<10, 20>>, <<10, 20, 30>>}
WBounds == ((0 - MaxWLen) - 1) .. (MaxWLen + 1)
\* The slices with step 1, and some with step 2.
WSlices ==
    [slice : {TRUE}, start : WBounds \cup {WNone}, stop : WBounds \cup {WNone}, step : {1}]
        \cup [slice : {TRUE}, start : {0, 1}, stop : {2, WNone}, step : {2}]
WIndexes == {[slice |-> FALSE, start |-> i, stop |-> i + 1, step |-> 1] :
                i \in (0 - MaxWLen) .. MaxWLen}

WIdle == wlast.op = "none"

WStart(pf) == [c |-> wl, ev |-> <<>>, err |-> "none", pf |-> pf]

WCommit(op, idx, value, r) ==
    LET res == r
    IN  /\ Len(res.c) <= MaxWLen
        /\ wl' = res.c
        /\ events' = res.ev
        /\ wlast' = [op |-> op, idx |-> idx, value |-> value, err |-> res.err, pre |-> wl]
        /\ UNCHANGED mmvars

InitWL ==
    /\ kind = [s \in Sides |-> "list"]
    /\ cap = MaxLen
    /\ badkeys = FALSE
    /\ contents = [s \in Sides |-> <<>>]
    /\ log = <<>>
    /\ last = NoCall
    /\ wl \in {SubSeq(<<1, 2, 3, 4>>, 1, n) : n \in 0 .. MaxWLen}
    /\ events = <<>>
    /\ wlast = NoWCall

\* s[i:j] = value  and  s[i:j:2] = value
Watch_setitem_slice ==
    /\ WIdle
    /\ \E idx \in WSlices : \E value \in WArgs :
           WCommit("setitem", idx, value, WatchableList_setitem(WStart(TRUE), idx, value))

\* s[i] = value
Watch_setitem_index ==
    /\ WIdle
    /\ \E idx \in WIndexes : \E value \in WValues : \E pf \in BOOLEAN :
           WCommit("setitem", idx, <<value>>, WatchableList_setitem(WStart(pf), idx, value))

\* del s[i]  and  del s[i:j]
Watch_delitem ==
    /\ WIdle
    /\ \E idx \in WIndexes \cup WSlices : \E pf \in BOOLEAN :
           WCommit("delitem", idx, <<>>, WatchableList_delitem(WStart(pf), idx))

\* s.append(value)
Watch_append ==
    /\ WIdle
    /\ \E value \in WValues :
           WCommit("append", NoWCall.idx, <<value>>, WatchableList_append(WStart(TRUE), value))

\* s.extend(value)
Watch_extend ==
    /\ WIdle
    /\ \E value \in WArgs :
           WCommit("extend", NoWCall.idx, value, WatchableList_extend(WStart(TRUE), value))

\* s.remove(value)
Watch_remove ==
    /\ WIdle
    /\ \E value \in WValues :
           WCommit("remove", NoWCall.idx, <<value>>, WatchableList_remove(WStart(TRUE), value))

\* The caller goes on.
Watch_return ==
    /\ ~WIdle
    /\ wlast' = NoWCall
    /\ events' = <<>>
    /\ UNCHANGED <<wl, mmvars>>

NextWL ==
    \/ Watch_setitem_slice
    \/ Watch_setitem_index
    \/ Watch_delitem
    \/ Watch_append
    \/ Watch_extend
    \/ Watch_remove
    \/ Watch_return

SpecWL == InitWL /\ [][NextWL]_vars

(***************************************************************************)
(* Vocabulary of the properties.                                           *)
(***************************************************************************)
\* The calls that change a relation side.
Mutators ==
    {"append", "extend", "remove", "clear", "setitem", "delitem", "assign",
     "delete", "inplace"}

Returned == ~Idle
Completed == Returned /\ last.err = "none"
Now == Snapshot(contents)

\* side[k]'s container in a snapshot; a key the side does not hold reads as
\* the empty container it would be created with.
ItemsAt(snap, s, k) == IF k \in DOMAIN snap[s] THEN snap[s][k] ELSE inner(kind[s])

\* x in side[k]
Has(snap, s, k, x) == Contains(kind[s], ItemsAt(snap, s, k), x)

\* How many times side[k] holds x.
Mult(snap, s, k, x) ==
    IF IsList(kind[s]) THEN Occurrences(ItemsAt(snap, s, k), x)
    ELSE IF kind[s] = "set" THEN (IF x \in ItemsAt(snap, s, k) THEN 1 ELSE 0)
    ELSE Count(ItemsAt(snap, s, k), x)

Symmetric(snap) ==
    \A K \in LeftKeys : \A K2 \in RightKeys :
        Has(snap, "left", K, K2) <=> Has(snap, "right", K2, K)

\* Two snapshots hold the same relation entries.
SameItems(a, b) ==
    \A s \in Sides : \A k \in KeysOf(s) :
        IF IsList(kind[s]) THEN ItemsAt(a, s, k) = ItemsAt(b, s, k)
        ELSE \A x \in ItemsOf(s) : Mult(a, s, k, x) = Mult(b, s, k, x)

\* Pass i of the log is on the collection the call was made on / on a
\* collection of the opposite side; it called at least one listener.
OwnPass(i) == log[i].side = last.side /\ log[i].key = last.key
OppositePass(i) == log[i].side = Other(last.side)
Heard(i) == log[i].called # <<>>

\* The call wrote the container of Other(last.side)[x], or notified it.
OppositeTouched(x) ==
    \/ <<Other(last.side), x>> \in last.touched
    \/ \E i \in DOMAIN log : OppositePass(i) /\ log[i].key = x

(***************************************************************************)
(* C1.  Symmetry: after every mutating call that completes, on any         *)
(* combination of kinds, K2 is in left[K] exactly if K is in right[K2].    *)
(* Stated as what it asks of each single call: a mutating call that starts *)
(* with the relation symmetric and completes leaves it symmetric.          *)
(***************************************************************************)
C1_SymmetryAfterEveryMutation ==
    (Completed /\ last.op \in Mutators /\ Symmetric(last.pre)) => Symmetric(Now)

(***************************************************************************)
(* C2.  Whenever a listener is called, the relation it can observe is      *)
(* symmetric.                                                              *)
(***************************************************************************)
C2_ListenersObserveSymmetry ==
    \A i \in DOMAIN log : Heard(i) => Symmetric(log[i].seen)

(***************************************************************************)
(* C3.  Batch atomicity of extend: when side[K].extend(items) adds new,    *)
(* distinct items, every listener called by it finds all of them in        *)
(* side[K] and K in the opposite container of each of them.                *)
(***************************************************************************)
C3_AddsNewDistinctItems ==
    /\ last.op = "extend"
    /\ last.arg # <<>>
    /\ ~HasDupes(last.arg)
    /\ \A x \in Range(last.arg) : ~Has(last.pre, last.side, last.key, x)

C3_ExtendBatchAtomic ==
    C3_AddsNewDistinctItems =>
        \A i \in DOMAIN log : Heard(i) =>
            \A x \in Range(last.arg) :
                /\ Has(log[i].seen, last.side, last.key, x)
                /\ Has(log[i].seen, Other(last.side), x, last.key)

\* The mutators of a RelationSide that C4 is about.
SideMutators == {"append", "extend", "remove", "clear", "setitem", "delitem"}

(***************************************************************************)
(* C4.  Notification order.  As claimed: in append, extend, remove, clear, *)
(* index/slice assignment and deletion, the listeners of the mutated side  *)
(* are called before any listener of an opposite side.                     *)
(***************************************************************************)
C4_OwnListenersFirst ==
    (Returned /\ last.op \in SideMutators) =>
        \A i, j \in DOMAIN log :
            (OwnPass(i) /\ Heard(i) /\ OppositePass(j) /\ Heard(j)) => i < j

(***************************************************************************)
(* C4, amended.  In every mutating call the notification pass of the       *)
(* mutated side is the last one: every pass over the listeners of an       *)
(* opposite side touched by the call comes before it.                      *)
(***************************************************************************)
C4_OwnListenersLast ==
    (Returned /\ last.op \in SideMutators) =>
        \A i, j \in DOMAIN log : (OwnPass(i) /\ OppositePass(j)) => j < i

\* A mutating call has called a listener of an opposite side and a listener
\* of the mutated side.
C4_BothSidesHeard ==
    /\ Returned /\ last.op \in SideMutators
    /\ \E i, j \in DOMAIN log : OwnPass(i) /\ Heard(i) /\ OppositePass(j) /\ Heard(j)

(***************************************************************************)
(* C5.  Replace is diff-based.  The contents a replace installs:           *)
(***************************************************************************)
IsReplace == Returned /\ last.op \in {"assign", "inplace"}

NewItems ==
    IF last.op = "assign" THEN Convert(kind[last.side], last.arg)
    ELSE do_op(kind[last.side], last.arg.name,
               ItemsAt(last.pre, last.side, last.key),
               Convert(kind[last.side], last.arg.other))

\* How many times a raw container of kind k holds x.
MultIn(k, items, x) ==
    IF IsList(k) THEN Occurrences(items, x)
    ELSE IF k = "set" THEN (IF x \in items THEN 1 ELSE 0)
    ELSE Count(items, x)

(***************************************************************************)
(* C5 as claimed: for every variant, an item present both before and       *)
(* after the replace has its opposite container neither written nor        *)
(* notified.                                                               *)
(***************************************************************************)
C5_ReplaceIsDiffBased ==
    IsReplace =>
        \A x \in ItemsOf(last.side) :
            (Has(last.pre, last.side, last.key, x) /\ Has(Now, last.side, last.key, x))
                => ~OppositeTouched(x)

(***************************************************************************)
(* C5, amended.  On a Set or a Counter side, an item that the new contents *)
(* hold as many times as the current contents do has its opposite          *)
(* container neither written nor notified during the replace.  (The list   *)
(* variants replace by clear and extend, which unlinks and links again     *)
(* every item.)                                                            *)
(***************************************************************************)
C5_SetCounterReplaceIsDiffBased ==
    (IsReplace /\ kind[last.side] \in {"set", "counter"}) =>
        \A x \in ItemsOf(last.side) :
            MultIn(kind[last.side], ItemsAt(last.pre, last.side, last.key), x)
                    = MultIn(kind[last.side], NewItems, x)
                => ~OppositeTouched(x)

\* A replace on a Set or Counter side has kept one item and dropped or added
\* another, whose opposite container it wrote.
C5_KeptAndChanged ==
    /\ IsReplace /\ kind[last.side] \in {"set", "counter"} /\ last.err = "none"
    /\ \E x, y \in ItemsOf(last.side) :
           /\ Has(last.pre, last.side, last.key, x)
           /\ Has(Now, last.side, last.key, x)
           /\ ~OppositeTouched(x)
           /\ OppositeTouched(y)

(***************************************************************************)
(* C6.  clear() unlinks every current item, for every variant: when        *)
(* side[K].clear() completes, side[K] is empty and the opposite container  *)
(* of no item it held contains K; an item a Counter side held N times has  *)
(* lost N reciprocal entries.                                              *)
(***************************************************************************)
C6_ClearUnlinksEverything ==
    (Completed /\ last.op = "clear") =>
        /\ Size(kind[last.side], ItemsAt(Now, last.side, last.key)) = 0
        /\ \A x \in ItemsOf(last.side) :
               Has(last.pre, last.side, last.key, x)
                   => ~Has(Now, Other(last.side), x, last.key)
        /\ kind[last.side] = "counter" =>
               \A x \in ItemsOf(last.side) :
                   LET n == Mult(last.pre, last.side, last.key, x)
                       m == Mult(last.pre, Other(last.side), x, last.key)
                   IN  (n > 0 /\ m >= n) =>
                           Mult(Now, Other(last.side), x, last.key) = m - n

(***************************************************************************)
(* C7.  extend on a Set side with items that are all present already:      *)
(* both sides stay as they are, no opposite container is written, and no   *)
(* listener is called, of the mutated side or of an opposite side.         *)
(***************************************************************************)
C7_SetExtendOfPresentItems ==
    (/\ Returned /\ last.op = "extend" /\ kind[last.side] = "set"
     /\ last.arg # <<>>
     /\ \A x \in Range(last.arg) : Has(last.pre, last.side, last.key, x))
        => /\ SameItems(last.pre, Now)
           /\ \A x \in ItemsOf(last.side) : <<Other(last.side), x>> \notin last.touched
           /\ \A i \in DOMAIN log : ~Heard(i)

(***************************************************************************)
(* C8.  append on a Set side of an item that is present already: no        *)
(* listener is called (there is no notification pass at all) and no        *)
(* container of either side is written.                                    *)
(***************************************************************************)
C8_SetAppendOfPresentItem ==
    (/\ Returned /\ last.op = "append" /\ kind[last.side] = "set"
     /\ Has(last.pre, last.side, last.key, last.arg))
        => /\ log = <<>>
           /\ last.touched = {}
           /\ SameItems(last.pre, Now)
           /\ last.err = "none"

\* A present item has been appended to a Set side that has a listener, and
\* whose opposite container has one.
C8_PresentItemAppended ==
    /\ Returned /\ last.op = "append" /\ kind[last.side] = "set"
    /\ Has(last.pre, last.side, last.key, last.arg)
    /\ contents[last.side][last.key].listeners # <<>>
    /\ last.arg \in DOMAIN contents[Other(last.side)]
    /\ contents[Other(last.side)][last.arg].listeners # <<>>

(***************************************************************************)
(* C9.  CheckedList uniqueness: no mutating call on a CheckedList side     *)
(* returns normally while the side's container holds a key twice.          *)
(***************************************************************************)
C9_CheckedListReturnsUnique ==
    (/\ Completed /\ last.op \in Mutators
     /\ kind[last.side] = "checked_list")
        => ~HasDupes(ItemsAt(Now, last.side, last.key))

(***************************************************************************)
(* C10.  Assigning a list with a repeated key to a CheckedList side raises *)
(* the duplicates error, after the mutation: the side's container then     *)
(* holds the assigned list, duplicate included.                            *)
(***************************************************************************)
C10_AssignedDuplicateIsDetected ==
    (/\ Returned /\ last.op = "assign" /\ kind[last.side] = "checked_list"
     /\ HasDupes(last.arg))
        => /\ last.err = "ValueError: duplicates"
           /\ ItemsAt(Now, last.side, last.key) = last.arg

(***************************************************************************)
(* C11.  Failure precedes notification: in a relation without a            *)
(* CheckedList side, a mutating call that raises has called no listener,   *)
(* of the mutated side or of an opposite side, before it raised.           *)
(***************************************************************************)
NoCheckedList == \A s \in Sides : kind[s] # "checked_list"

C11_FailureBeforeNotification ==
    (Returned /\ last.op \in Mutators /\ last.err # "none" /\ NoCheckedList)
        => \A i \in DOMAIN log : ~Heard(i)

(***************************************************************************)
(* C12.  remove on a List or CheckedList side.  Of an absent item: the     *)
(* call fails with the not-found error, every container of both sides is   *)
(* as before, and no listener is called.  Of a present item: the side      *)
(* holds one occurrence less, and the opposite container of the item holds *)
(* one reciprocal entry less.                                              *)
(***************************************************************************)
IsListRemove == Returned /\ last.op = "remove" /\ IsList(kind[last.side])

C12_RemoveOnListSide ==
    IsListRemove =>
        IF ~Has(last.pre, last.side, last.key, last.arg)
        THEN /\ last.err = "ValueError: not in list"
             /\ SameItems(last.pre, Now)
             /\ \A i \in DOMAIN log : ~Heard(i)
        ELSE /\ Mult(Now, last.side, last.key, last.arg)
                    = Mult(last.pre, last.side, last.key, last.arg) - 1
             /\ Mult(Now, Other(last.side), last.arg, last.key)
                    = Mult(last.pre, Other(last.side), last.arg, last.key) - 1

(***************************************************************************)
(* C13.  del side[key], for every variant: when it completes, key is not a *)
(* key of the side any more, the opposite container of no item side[key]   *)
(* held contains key, and the side's entries under other keys are as       *)
(* before.                                                                 *)
(***************************************************************************)
C13_DeleteUnlinksKey ==
    (Completed /\ last.op = "delete") =>
        /\ last.key \notin DOMAIN contents[last.side]
        /\ \A x \in ItemsOf(last.side) :
               Has(last.pre, last.side, last.key, x)
                   => ~Has(Now, Other(last.side), x, last.key)
        /\ \A k \in DOMAIN last.pre[last.side] \ {last.key} :
               /\ k \in DOMAIN contents[last.side]
               /\ contents[last.side][k].items = last.pre[last.side][k]

(***************************************************************************)
(* C14.  The scenario on ManyToMany('set', 'list'), with key 1 and item    *)
(* 'a' (here 11).  Each step is recognised by the relation it starts from: *)
(*   left[1].append('a') on the new relation: right['a'] contains 1;       *)
(*   then left[1].remove('a'): right['a'] is empty;                        *)
(*   then left[1].extend(['a', 'a']): left[1] holds 'a' once and           *)
(*   right['a'] holds 1 once.                                              *)
(***************************************************************************)
IsScenario ==
    /\ kind = [left |-> "set", right |-> "list"]
    /\ Returned /\ last.side = "left" /\ last.key = 1

\* The relation before each step of the scenario.
ScenarioNew == last.pre = [s \in Sides |-> <<>>]
ScenarioAppended ==
    /\ DOMAIN last.pre["left"] = {1} /\ last.pre["left"][1] = {11}
    /\ DOMAIN last.pre["right"] = {11} /\ last.pre["right"][11] = <<1>>
ScenarioRemoved ==
    /\ DOMAIN last.pre["left"] = {1} /\ last.pre["left"][1] = {}
    /\ DOMAIN last.pre["right"] = {11} /\ last.pre["right"][11] = <<>>

C14_EndToEndScenario ==
    IsScenario =>
        /\ (last.op = "append" /\ last.arg = 11 /\ ScenarioNew)
               => /\ last.err = "none"
                  /\ Has(Now, "right", 11, 1)
        /\ (last.op = "remove" /\ last.arg = 11 /\ ScenarioAppended)
               => /\ last.err = "none"
                  /\ ItemsAt(Now, "right", 11) = <<>>
        /\ (last.op = "extend" /\ last.arg = <<11, 11>> /\ ScenarioRemoved)
               => /\ last.err = "none"
                  /\ ItemsAt(Now, "left", 1) = {11}
                  /\ ItemsAt(Now, "right", 11) = <<1>>

\* The last step of the scenario has been made.
C14_ScenarioEnded ==
    /\ IsScenario /\ last.op = "extend" /\ last.arg = <<11, 11>> /\ ScenarioRemoved
    /\ ItemsAt(Now, "right", 11) = <<1>>

(***************************************************************************)
(* WatchableList: a slice assignment with step 1 has been made; the number *)
(* of places its slice selects; the kinds of the events it published.      *)
(***************************************************************************)
IsSliceAssign ==
    /\ wlast.op = "setitem" /\ wlast.idx.slice /\ wlast.idx.step = 1

SliceLen == RangeLen(SliceIndices(wlast.idx, Len(wlast.pre)))

EventKinds == [i \in DOMAIN events |-> events[i].kind]

(***************************************************************************)
(* C15.  WatchableList slice assignment agrees with an ordinary list: for  *)
(* all contents, every slice with step 1 (bounds of either sign, out of    *)
(* range, left out, start beyond stop) and every value, s[slice] = value   *)
(* ends normally with the contents list[slice] = value gives.              *)
(***************************************************************************)
C15_SliceAssignLikeList ==
    IsSliceAssign =>
        /\ wlast.err = "none"
        /\ wl = ListSetSlice(wlast.pre, wlast.idx, wlast.value)

\* A value has been assigned to an empty slice whose start is beyond its
\* stop, inside a list that has items on both sides of the start.
C15_GrownAtReversedSlice ==
    /\ IsSliceAssign /\ wlast.value # <<>>
    /\ LET b == SliceIndices(wlast.idx, Len(wlast.pre))
       IN  b.stop < b.start /\ 0 < b.stop /\ b.start < Len(wlast.pre)

(***************************************************************************)
(* C16.  Events of a slice assignment with step 1: a value shorter than    *)
(* the slice gives one 'update' then one 'del'; a longer one gives one     *)
(* 'update' then one 'insert'; one of equal length gives one 'update'.     *)
(* And [1,2,3,4] with s[1:3] = [10] becomes [1,10,4] with update, del.     *)
(***************************************************************************)
C16_SliceAssignEvents ==
    IsSliceAssign =>
        /\ Len(wlast.value) < SliceLen => EventKinds = <<"update", "del">>
        /\ Len(wlast.value) > SliceLen => EventKinds = <<"update", "insert">>
        /\ Len(wlast.value) = SliceLen => EventKinds = <<"update">>
        /\ (wlast.pre = <<1, 2, 3, 4>> /\ wlast.idx = WSlice(1, 3) /\ wlast.value = <<10>>)
               => wl = <<1, 10, 4>> /\ EventKinds = <<"update", "del">>

\* The assignment s[1:3] = [10] has been made on [1,2,3,4].
C16_ExampleAssigned ==
    /\ IsSliceAssign
    /\ wlast.pre = <<1, 2, 3, 4>> /\ wlast.idx = WSlice(1, 3) /\ wlast.value = <<10>>
    /\ wl = <<1, 10, 4>>

(***************************************************************************)
(* C17.  Failed operations keep symmetry: when a mutating call raises (the *)
(* duplicates error of a CheckedList, or a not-found error of the          *)
(* opposite side during unlinking), K2 is in left[K] exactly if K is in    *)
(* right[K2] in the state it leaves.  Stated for the calls that start with *)
(* the relation symmetric.                                                 *)
(***************************************************************************)
C17_FailedCallKeepsSymmetry ==
    (/\ Returned /\ last.op \in Mutators
     /\ last.err \in {"ValueError: duplicates", "ValueError: not in list", "KeyError"}
     /\ Symmetric(last.pre))
        => Symmetric(Now)

(***************************************************************************)
(* C18.  Notification reaches every live listener: in one pass over the    *)
(* listeners of a collection, every registered listener whose owner is     *)
(* alive is called exactly once, also when a listener whose owner is dead  *)
(* is reached in the same pass and deregisters itself.                     *)
(***************************************************************************)
C18_EveryLiveListenerCalledOnce ==
    \A i \in DOMAIN log :
        \A func \in Range(log[i].registered) :
            Alive(func) => Occurrences(log[i].called, func) = 1

BothLists == \A s \in Sides : kind[s] = "list"

MultSymmetric(snap) ==
    \A K \in LeftKeys : \A K2 \in RightKeys :
        Mult(snap, "left", K, K2) = Mult(snap, "right", K2, K)

(***************************************************************************)
(* C19.  List/list multiplicity symmetry: when both sides are lists, after *)
(* every mutating call that completes, for all keys K and K2 the number of *)
(* occurrences of K2 in left[K] equals the number of occurrences of K in   *)
(* right[K2].                                                              *)
(***************************************************************************)
C19_ListListMultiplicity ==
    (Completed /\ last.op \in Mutators /\ BothLists) => MultSymmetric(Now)

(***************************************************************************)
(* C20.  Counter multiplicities stay non-negative: in a relation with a    *)
(* Counter side, after any sequence of calls (remove of an item whose      *)
(* count is zero included, made on the side or as the reciprocal unlink    *)
(* from the opposite side), every count held by a Counter side is >= 0.    *)
(***************************************************************************)
C20_CountsNonNegative ==
    \A s \in Sides : kind[s] = "counter" =>
        \A k \in DOMAIN contents[s] : \A x \in DOMAIN contents[s][k].items :
            contents[s][k].items[x] >= 0

====
